---- MODULE Spec2Model ----
(***************************************************************************)
(* A model of the holdings aggregation of mf-insights-dashboard:           *)
(*   - utils/comparator.py  generate_summary_table                         *)
(*   - scraper/mf_holdings.py  load_holdings                               *)
(*   - app.py  create_comparison_analysis (stock_scheme_count)             *)
(* Stock names are sequences of characters, so that lower() is a real      *)
(* conversion.  A holding row is a Python dict: a function whose DOMAIN is *)
(* the set of keys the row has; reading an absent key raises KeyError.     *)
(* percent_aum values are exact decimals in units of 0.001.                *)
(***************************************************************************)
EXTENDS Integers, Sequences, FiniteSets, TLC

VARIABLES
    holdings,      \* load_holdings(): scheme name -> list of holding rows
    top_small,     \* get_top_10_smallcaps(): list of stock names
    top_mid,       \* get_top_10_midcaps(): list of stock names
    hashOrder,     \* iteration order of a set of str in the running process
    pc,            \* "start", "returned", "raised"
    summary,       \* the value generate_summary_table returned
    run,           \* 1: first process, 2: second process on the same input
    firstSummary,  \* what the first process returned, kept for comparison
    processed_data,\* app.py: sheet name -> the sheet's 'Stock Invested in' column
    stage,         \* app.py: how far the analysis of processed_data has come
    analysis,      \* what create_comparison_analysis returned
    conviction,    \* the table compute_conviction returned
    overlap,       \* the pair list and matrix compute_scheme_overlap returned
    yf_answers,    \* app.py: what get_market_cap_yfinance returns for each stock
    stock_market_caps, \* app.py: the dict process_all_sheets_data fills per stock
    session,       \* app.py: st.session_state, a mapping of the keys it holds
    shown,         \* app.py: what the last run of main displayed
    last_load      \* app.py: the load_all_sheets call of the last run, if any

cmpVars == <<holdings, top_small, top_mid, hashOrder, pc, summary, run, firstSummary>>
appVars == <<processed_data, stage, analysis, conviction, overlap>>
capVars == <<yf_answers, stock_market_caps>>
sessVars == <<session, shown, last_load>>
restVars == <<capVars, sessVars>>
vars == <<cmpVars, appVars, restVars>>

----------------------------------------------------------------------------
\* Bounds of the model

\* most holding rows in the two raw files together
MaxRows == 2
\* most target stocks in the two top-10 lists together
MaxTargets == 2

----------------------------------------------------------------------------
\* Strings

A == <<"A">>
a == <<"a">>
SpA == <<" ", "A">>
B == <<"B">>
Empty == <<>>

\* str.lower() on one character
LowerChar(c) ==
    CASE c = "A" -> "a"
      [] c = "B" -> "b"
      [] OTHER -> c

\* str.lower()
Lower(s) == [i \in 1..Len(s) |-> LowerChar(s[i])]

\* str.strip(): not called by the comparator, used to state what it omits
RECURSIVE LStrip(_)
LStrip(s) == IF s # <<>> /\ Head(s) = " " THEN LStrip(Tail(s)) ELSE s
RECURSIVE RStrip(_)
RStrip(s) ==
    IF s # <<>> /\ s[Len(s)] = " " THEN RStrip(SubSeq(s, 1, Len(s) - 1)) ELSE s
Strip(s) == RStrip(LStrip(s))

----------------------------------------------------------------------------
\* Inputs

\* the keys load_holdings() builds its mapping with, in insertion order
SchemeOrder == <<"SBI Small Cap Fund", "HDFC Midcap Opportunities">>
Schemes == {SchemeOrder[i] : i \in 1..Len(SchemeOrder)}

Sentiments == {"Buy", "Hold"}

\* the rows a raw holdings file is drawn from: well-formed rows that differ in
\* name, case, whitespace, weight and sentiment, and rows lacking a key
RowPool ==
    { [stock |-> A,     percent_aum |-> 12, sentiment |-> "Buy"],
      [stock |-> A,     percent_aum |-> 27, sentiment |-> "Hold"],
      [stock |-> a,     percent_aum |-> 27, sentiment |-> "Buy"],
      [stock |-> SpA,   percent_aum |-> 12, sentiment |-> "Hold"],
      [stock |-> B,     percent_aum |-> 12, sentiment |-> "Hold"],
      [stock |-> Empty, percent_aum |-> 12, sentiment |-> "Buy"],
      [percent_aum |-> 12, sentiment |-> "Buy"],
      [stock |-> A, sentiment |-> "Hold"],
      [stock |-> A, percent_aum |-> 27] }

TargetNames == {A, B}

SeqsUpTo(S, n) == UNION {[1..k -> S] : k \in 0..n}

NoDup(s) == \A i, j \in 1..Len(s) : i # j => s[i] # s[j]

\* every mapping of the two schemes to row lists of at most MaxRows rows in all
HoldingsInputs ==
    { h \in [Schemes -> SeqsUpTo(RowPool, MaxRows)] :
        Len(h[SchemeOrder[1]]) + Len(h[SchemeOrder[2]]) <= MaxRows }

\* top lists name a stock once each
TopInputs ==
    { t \in SeqsUpTo(TargetNames, MaxTargets) \X SeqsUpTo(TargetNames, MaxTargets) :
        /\ Len(t[1]) + Len(t[2]) <= MaxTargets
        /\ NoDup(t[1]) /\ NoDup(t[2]) }

\* the orders in which a process may iterate a set of str (hash seed)
RECURSIVE Perms(_)
Perms(S) ==
    IF S = {} THEN {<<>>}
    ELSE UNION {{<<x>> \o p : p \in Perms(S \ {x})} : x \in S}
HashOrders == Perms(Sentiments)

----------------------------------------------------------------------------
\* generate_summary_table

\* a comparison that forgets lower()
NameMatchesExact(name, stock) == name = stock

\* s["stock"].lower() == stock.lower()
NameMatches(name, stock) == Lower(name) = Lower(stock)

\* the list comprehension: the rows of one scheme that match the stock
Matched(stocks, stock) ==
    SelectSeq(stocks, LAMBDA s : NameMatches(s.stock, stock))

\* the comprehension reads s["stock"] of every row of the scheme
StockKeyError(stocks) == \E i \in 1..Len(stocks) : "stock" \notin DOMAIN stocks[i]

\* matched[0]["percent_aum"], matched[0]["sentiment"]
FieldKeyError(m) ==
    m # <<>> /\ ("percent_aum" \notin DOMAIN m[1] \/ "sentiment" \notin DOMAIN m[1])

RECURSIVE PercentOfAll(_)
PercentOfAll(m) ==
    IF m = <<>> THEN 0
    ELSE (IF "percent_aum" \in DOMAIN Head(m) THEN Head(m).percent_aum ELSE 0)
         + PercentOfAll(Tail(m))

\* counting matching rows instead of schemes
FundCountRows(m) == Len(m)
\* fund_count += 1
FundCountStep(m) == 1

\* adding the weight of every matching row instead of the first
PercentStepAllRows(m) == PercentOfAll(m)
\* total_percent += matched[0]["percent_aum"]
PercentStep(m) == m[1].percent_aum

\* sentiments.append(matched[0]["sentiment"])
SentimentStep(m) == m[1].sentiment

\* one iteration of "for scheme, stocks in holdings.items()"
ScanScheme(acc, stocks, stock) ==
    IF acc.raised \/ StockKeyError(stocks) THEN [acc EXCEPT !.raised = TRUE]
    ELSE LET m == Matched(stocks, stock) IN
         IF m = <<>> THEN acc
         ELSE IF FieldKeyError(m) THEN [acc EXCEPT !.raised = TRUE]
         ELSE [ fund_count    |-> acc.fund_count + FundCountStep(m),
                total_percent |-> acc.total_percent + PercentStep(m),
                sentiments    |-> Append(acc.sentiments, SentimentStep(m)),
                raised        |-> FALSE ]

\* the loop over holdings.items(), in the mapping's insertion order
RECURSIVE ScanFrom(_, _, _, _)
ScanFrom(h, stock, i, acc) ==
    IF i > Len(SchemeOrder) THEN acc
    ELSE ScanFrom(h, stock, i + 1, ScanScheme(acc, h[SchemeOrder[i]], stock))

ScanHoldings(h, stock) ==
    ScanFrom(h, stock, 1,
             [fund_count |-> 0, total_percent |-> 0, sentiments |-> <<>>,
              raised |-> FALSE])

\* round(n / d, 2) in units of 0.001: the nearest multiple of 10; an exact
\* tie goes to the even hundredth (the inputs of the model produce no tie,
\* where Python follows the binary value of the float)
Round2(n, d) ==
    LET q == (n \div (10 * d))
        r == n - q * 10 * d
    IN  IF 2 * r < 10 * d THEN 10 * q
        ELSE IF 2 * r > 10 * d THEN 10 * (q + 1)
        ELSE IF q % 2 = 0 THEN 10 * q ELSE 10 * (q + 1)

\* round(total_percent / fund_count, 2) if fund_count else 0
AvgAum(total_percent, fund_count) ==
    IF fund_count # 0 THEN Round2(total_percent, fund_count) ELSE 0

\* sentiments.count(v)
Count(sentiments, v) == Cardinality({i \in 1..Len(sentiments) : sentiments[i] = v})

\* max(iterable, key): the first element of the iteration with the largest key
RECURSIVE MaxByCount(_, _, _, _)
MaxByCount(it, i, best, sentiments) ==
    IF i > Len(it) THEN best
    ELSE MaxByCount(it, i + 1,
                    IF Count(sentiments, it[i]) > Count(sentiments, best)
                    THEN it[i] ELSE best,
                    sentiments)

\* max(set(sentiments), key=sentiments.count) if sentiments else "Not Held"
DominantSentiment(sentiments, order) ==
    IF sentiments = <<>> THEN "Not Held"
    ELSE LET it == SelectSeq(order,
                     LAMBDA v : \E i \in 1..Len(sentiments) : sentiments[i] = v)
         IN  MaxByCount(it, 2, it[1], sentiments)

\* the dict appended to rows for one stock
SummaryRow(h, stock, order) ==
    LET acc == ScanHoldings(h, stock) IN
    [ Stock     |-> stock,
      FundCount |-> acc.fund_count,
      AvgAUM    |-> AvgAum(acc.total_percent, acc.fund_count),
      Sentiment |-> DominantSentiment(acc.sentiments, order) ]

\* leaving out the stocks no scheme holds
CapRowsHeldOnly(h, top_stocks, order) ==
    SelectSeq([i \in 1..Len(top_stocks) |-> SummaryRow(h, top_stocks[i], order)],
              LAMBDA r : r.FundCount > 0)

\* rows of one cap type: one row per stock of the top list, in list order
CapRows(h, top_stocks, order) ==
    [i \in 1..Len(top_stocks) |-> SummaryRow(h, top_stocks[i], order)]

\* some iteration of the loops raises KeyError
Raises(h, tops) ==
    \E c \in 1..2 : \E i \in 1..Len(tops[c]) : ScanHoldings(h, tops[c][i]).raised

NoSummary == [small_cap |-> <<>>, mid_cap |-> <<>>]


----------------------------------------------------------------------------
\* app.py: create_comparison_analysis, and the conviction and overlap
\* summaries computed from its combined table

\* most sheets in processed_data
MaxSheets == 5

\* the sheet names get_sheet_info generates
SheetName(i) ==
    CASE i = 1 -> "Sheet1" [] i = 2 -> "Sheet2" [] i = 3 -> "Sheet3"
      [] i = 4 -> "Sheet4" [] i = 5 -> "Sheet5" [] i = 6 -> "Sheet6"
      [] OTHER -> "Sheet7"

\* the 'Stock Invested in' columns a sheet is drawn from
ColumnPool == {<<A>>, <<A, A>>, <<B>>, <<a, B>>}

\* a sheet: whether it has the column 'Stock Invested in', and the column
SheetPool ==
    {[has_stock_column |-> TRUE, stocks |-> c] : c \in ColumnPool}
        \cup {[has_stock_column |-> FALSE, stocks |-> <<>>]}

\* processed_data as a list: element i is the sheet named SheetName(i)
ProcessedInputs == UNION {[1..k -> SheetPool] : k \in 1..MaxSheets}

None == "None"

\* 'Stock Invested in' in df.columns
HasStockColumn(df) == df.has_stock_column

\* pd.concat of the sheets that have the column, each row tagged with its
\* sheet name as Scheme: a list of [Scheme, Stock]
RECURSIVE CombinedFrom(_, _)
CombinedFrom(pd, i) ==
    IF i > Len(pd) THEN <<>>
    ELSE (IF HasStockColumn(pd[i])
          THEN [j \in 1..Len(pd[i].stocks) |->
                  [Scheme |-> SheetName(i), Stock |-> pd[i].stocks[j]]]
          ELSE <<>>)
         \o CombinedFrom(pd, i + 1)

CombinedDf(pd) == CombinedFrom(pd, 1)

\* no sheet has the column: create_comparison_analysis returns None
NoHoldings(pd) == \A i \in 1..Len(pd) : ~HasStockColumn(pd[i])

StocksIn(df) == {df[i].Stock : i \in 1..Len(df)}
SchemesIn(df) == {df[i].Scheme : i \in 1..Len(df)}

\* counting the rows of the stock, as len(stock_data) does
SchemeRowCount(df, stock) == Cardinality({i \in 1..Len(df) : df[i].Stock = stock})

\* groupby('Stock Invested in')['Scheme'].nunique()
SchemeCount(df, stock) ==
    Cardinality({df[i].Scheme : i \in {j \in 1..Len(df) : df[j].Stock = stock}})

\* the order of str values: "A" < "B" < "a"
StockRank(s) == CASE s = A -> 1 [] s = B -> 2 [] s = a -> 3 [] OTHER -> 4

\* the rows of a table (a set of records with a Stock), sorted by descending
\* key and, for equal keys, in the ascending stock order groupby produced
RECURSIVE SortDesc(_, _)
SortDesc(rows, key) ==
    IF rows = {} THEN <<>>
    ELSE LET first == CHOOSE r \in rows : \A q \in rows :
                         \/ r[key] > q[key]
                         \/ r[key] = q[key] /\ StockRank(r.Stock) <= StockRank(q.Stock)
         IN  <<first>> \o SortDesc(rows \ {first}, key)

\* stock_scheme_count: one row per stock, sorted by Number_of_Schemes
StockSchemeCount(df) ==
    SortDesc({[Stock |-> s, Number_of_Schemes |-> SchemeCount(df, s)] : s \in StocksIn(df)},
             "Number_of_Schemes")

\* stock_data = combined_df[combined_df['Stock Invested in'] == stock]
StockData(df, stock) == SelectSeq(df, LAMBDA r : r.Stock = stock)

\* stock_data['Scheme'].unique(): the distinct values in order of appearance
RECURSIVE UniqueSchemes(_, _)
UniqueSchemes(rows, i) ==
    IF i > Len(rows) THEN <<>>
    ELSE LET rest == UniqueSchemes(rows, i + 1) IN
         IF \E j \in 1..(i - 1) : rows[j].Scheme = rows[i].Scheme
         THEN rest ELSE <<rows[i].Scheme>> \o rest

\* the stock_analysis dict of one stock: 'Number_of_Schemes' is
\* len(stock_data), 'Schemes' the joined distinct scheme names (kept as a list)
StockAnalysis(df, stock) ==
    [Stock |-> stock,
     Number_of_Schemes |-> Len(StockData(df, stock)),
     Schemes |-> UniqueSchemes(StockData(df, stock), 1)]

\* holdings_comparison: one row per stock of stock_scheme_count, in its order
HoldingsComparison(df) ==
    LET ssc == StockSchemeCount(df) IN
    [k \in 1..Len(ssc) |-> StockAnalysis(df, ssc[k].Stock)]

\* create_comparison_analysis
CreateAnalysis(pd) ==
    IF NoHoldings(pd) THEN None
    ELSE [combined_df |-> CombinedDf(pd),
          stock_scheme_count |-> StockSchemeCount(CombinedDf(pd)),
          holdings_comparison |-> HoldingsComparison(CombinedDf(pd))]

\* round(n / d, 1) in units of 0.1, an exact tie to the even tenth
Round1(n, d) ==
    LET q == (10 * n) \div d
        r == 10 * n - q * d
    IN  IF 2 * r < d THEN q
        ELSE IF 2 * r > d THEN q + 1
        ELSE IF q % 2 = 0 THEN q ELSE q + 1

HighThreshold == 500
MediumThreshold == 250

\* conviction_score = fund_count / total_distinct_schemes * 100, one decimal
\* (in units of 0.1)
ConvictionScore(fund_count, total) == Round1(100 * fund_count, total)

\* High (score >= 50), Medium (score >= 25), Low (otherwise)
ConvictionCategory(score) ==
    IF score >= HighThreshold THEN "High"
    ELSE IF score >= MediumThreshold THEN "Medium"
    ELSE "Low"

\* compute_conviction(rows): one row per stock, sorted by descending score
ComputeConvictionTable(df) ==
    LET total == Cardinality(SchemesIn(df))
        row(s) == LET fc == SchemeCount(df, s)
                      score == ConvictionScore(fc, total)
                  IN  [Stock |-> s, Scheme_Count |-> fc, Total_Schemes |-> total,
                       Conviction_Score |-> score,
                       Conviction_Category |-> ConvictionCategory(score)]
    IN  SortDesc({row(s) : s \in StocksIn(df)}, "Conviction_Score")

\* the distinct schemes of the rows, in order of first appearance
RECURSIVE SchemeList(_, _)
SchemeList(df, i) ==
    IF i > Len(df) THEN <<>>
    ELSE LET rest == SchemeList(df, i + 1) IN
         IF \E j \in 1..(i - 1) : df[j].Scheme = df[i].Scheme
         THEN rest ELSE <<df[i].Scheme>> \o rest

\* the set of distinct stock names a scheme holds, case-insensitive
SchemeStocks(df, scheme) ==
    {Lower(df[i].Stock) : i \in {j \in 1..Len(df) : df[j].Scheme = scheme}}

\* jaccard = common / |union|, 0 if the union is empty: a fraction num/den
Jaccard(sa, sb) ==
    IF sa \cup sb = {} THEN [num |-> 0, den |-> 1]
    ELSE [num |-> Cardinality(sa \cap sb), den |-> Cardinality(sa \cup sb)]

\* the pairs i < j of the enumeration, row by row
RECURSIVE PairList(_, _, _)
PairList(n, i, j) ==
    IF i >= n THEN <<>>
    ELSE IF j > n THEN PairList(n, i + 1, i + 2)
    ELSE <<<<i, j>>>> \o PairList(n, i, j + 1)

\* a matrix whose lower triangle was never filled in
MatrixUpperOnly(names, sets) ==
    [x \in {names[i] : i \in 1..Len(names)} |->
       [y \in {names[i] : i \in 1..Len(names)} |->
          LET ix == CHOOSE i \in 1..Len(names) : names[i] = x
              iy == CHOOSE i \in 1..Len(names) : names[i] = y
          IN  IF ix <= iy THEN Cardinality(sets[x] \cap sets[y]) ELSE 0]]

\* the matrix: the diagonal is the scheme's own holdings count, entry (i, j)
\* with i < j is the pair's common count, and entry (j, i) mirrors it
OverlapMatrix(names, sets) ==
    [x \in {names[i] : i \in 1..Len(names)} |->
       [y \in {names[i] : i \in 1..Len(names)} |->
          LET ix == CHOOSE i \in 1..Len(names) : names[i] = x
              iy == CHOOSE i \in 1..Len(names) : names[i] = y
              lo == IF ix <= iy THEN x ELSE y
              hi == IF ix <= iy THEN y ELSE x
          IN  IF ix = iy THEN Cardinality(sets[x])
              ELSE Cardinality(sets[lo] \cap sets[hi])]]

\* compute_scheme_overlap(rows): the pair list and the matrix
ComputeOverlap(df) ==
    LET names == SchemeList(df, 1)
        sets == [s \in SchemesIn(df) |-> SchemeStocks(df, s)]
        ps == PairList(Len(names), 1, 2)
    IN  [pairs |-> [k \in 1..Len(ps) |->
                      LET x == names[ps[k][1]]
                          y == names[ps[k][2]]
                      IN  [scheme_a |-> x, scheme_b |-> y,
                           common_stock_count |-> Cardinality(sets[x] \cap sets[y]),
                           jaccard |-> Jaccard(sets[x], sets[y])]],
         matrix |-> OverlapMatrix(names, sets)]

NoOverlap == [pairs |-> <<>>, matrix |-> <<>>]

----------------------------------------------------------------------------
\* app.py: categorize_market_cap, applied per stock by process_all_sheets_data

\* market_cap_value is held in millions of USD; None is the empty sequence
UnitUsd == 1000000
NoCap == <<>>

UsdToInr == 83
CroreDivisor == 10000000
LargeCapCrores == 20000
MidCapCrores == 5000

\* (market_cap_value * 83) / 10000000 >= crores, for a value of v millions
AtLeastCrores(v, crores) == v * UsdToInr >= crores * (CroreDivisor \div UnitUsd)

\* the two tests in the other order: the first one swallows the large caps
CategorizeMidFirst(market_cap_value) ==
    IF market_cap_value = NoCap THEN "Unknown"
    ELSE IF AtLeastCrores(market_cap_value[1], MidCapCrores) THEN "Mid Cap"
    ELSE IF AtLeastCrores(market_cap_value[1], LargeCapCrores) THEN "Large Cap"
    ELSE "Small Cap"

\* categorize_market_cap
CategorizeMarketCap(market_cap_value) ==
    IF market_cap_value = NoCap THEN "Unknown"
    ELSE IF AtLeastCrores(market_cap_value[1], LargeCapCrores) THEN "Large Cap"
    ELSE IF AtLeastCrores(market_cap_value[1], MidCapCrores) THEN "Mid Cap"
    ELSE "Small Cap"

\* the stocks of the loaded sheets
AllStocks == {A, B}

\* what Yahoo may answer: nothing, or a market cap around the two limits
\* (5000 crore is 602.4 million USD, 20000 crore is 2409.6 million USD)
CapValues == (601..604) \cup (2408..2411) \cup {1, 3000}
CapAnswers == {NoCap} \cup {<<v>> : v \in CapValues}

----------------------------------------------------------------------------
\* app.py: get_sheet_info, load_all_sheets, process_all_sheets_data and main

\* most sheets a run may be asked to process (num_sheets, at least 1)
MaxNumSheets == 2

\* the URLs typed into the sidebar: with a spreadsheet id, with an empty
\* id, and without the '/d/' marker
UrlPool ==
    { <<"h", "/", "d", "/", "k", "/", "e">>,
      <<"h", "/", "d", "/", "/", "e">>,
      <<"h", "/", "e">> }

Marker == <<"/", "d", "/">>

\* the positions at which the marker '/d/' starts
MarkerAt(url) ==
    {k \in 1..Len(url) : k + 2 <= Len(url) /\ SubSeq(url, k, k + 2) = Marker}

\* '/d/' in sheets_url
HasMarker(url) == MarkerAt(url) # {}

\* s.split('/')[0]: the text before the first '/'
RECURSIVE UpToSlash(_)
UpToSlash(s) ==
    IF s = <<>> \/ Head(s) = "/" THEN <<>> ELSE <<Head(s)>> \o UpToSlash(Tail(s))

\* sheets_url.split('/d/')[1].split('/')[0]
SheetIdOf(url) ==
    LET k == CHOOSE x \in MarkerAt(url) : \A y \in MarkerAt(url) : x <= y
    IN  UpToSlash(SubSeq(url, k + 3, Len(url)))

\* get_sheet_info: (sheet_id, sheet_info), (None, []) without the marker;
\* sheet_info holds the names Sheet1..SheetN
GetSheetInfo(url, n) ==
    IF HasMarker(url)
    THEN [is_none |-> FALSE, sheet_id |-> SheetIdOf(url),
          sheet_info |-> [i \in 1..n |-> SheetName(i)]]
    ELSE [is_none |-> TRUE, sheet_id |-> <<>>, sheet_info |-> <<>>]

\* not sheet_id: None or the empty string
NotSheetId(info) == info.is_none \/ info.sheet_id = <<>>

\* the sheets a spreadsheet may hold
LoadedSheetPool ==
    { [has_stock_column |-> TRUE, stocks |-> <<A>>],
      [has_stock_column |-> FALSE, stocks |-> <<>>] }

\* what load_sheet_data returns for a sheet: None (<<>>) or its DataFrame
FetchResults == {<<>>} \cup {<<df>> : df \in LoadedSheetPool}

IndexOfSheet(info, name) ==
    CHOOSE i \in 1..Len(info.sheet_info) : info.sheet_info[i] = name

\* a load_all_sheets that stores whatever load_sheet_data returned
LoadAllSheetsKeepFailed(url, n, fetched) ==
    LET info == GetSheetInfo(url, n) IN
    IF NotSheetId(info) THEN <<>>
    ELSE [name \in {info.sheet_info[i] : i \in 1..Len(info.sheet_info)} |->
            LET f == fetched[IndexOfSheet(info, name)] IN
            IF f = <<>> THEN [has_stock_column |-> FALSE, stocks |-> <<>>] ELSE f[1]]

\* load_all_sheets: the sheets whose load_sheet_data call returned a frame
LoadAllSheets(url, n, fetched) ==
    LET info == GetSheetInfo(url, n) IN
    IF NotSheetId(info) THEN <<>>
    ELSE [name \in {info.sheet_info[i] : i \in {j \in 1..Len(info.sheet_info) :
                                                   fetched[j] # <<>>}} |->
            fetched[IndexOfSheet(info, name)][1]]

\* the unique stock names of the sheets that have the column
StocksOfAllData(all_data) ==
    UNION {{all_data[name].stocks[j] : j \in 1..Len(all_data[name].stocks)} :
              name \in {x \in DOMAIN all_data : all_data[x].has_stock_column}}

\* what Yahoo answers during a session
SessionCapAnswers == {NoCap, <<603>>}

\* process_all_sheets_data: every sheet copied, with the two market cap
\* columns added where the sheet has the stock column
ProcessAllSheetsData(all_data, answers) ==
    [name \in DOMAIN all_data |->
        LET df == all_data[name] IN
        IF df.has_stock_column
        THEN [has_stock_column |-> TRUE,
              stocks |-> df.stocks,
              market_cap |-> [j \in 1..Len(df.stocks) |-> answers[df.stocks[j]]],
              category |-> [j \in 1..Len(df.stocks) |->
                              CategorizeMarketCap(answers[df.stocks[j]])]]
        ELSE df]

\* create_comparison_analysis(processed_data) is not None
HasAnalysis(pd) == \E name \in DOMAIN pd : pd[name].has_stock_column

\* a main panel that draws the process button whatever the session holds
MainPanelButtonAlways(s) ==
    {"process_button"}
        \cup (IF "processed_data" \in DOMAIN s /\ HasAnalysis(s["processed_data"])
              THEN {"analysis"} ELSE {})
        \cup (IF "all_data" \in DOMAIN s THEN {} ELSE {"instructions"})

\* what main draws below the load section for the session it ends with
MainPanel(s) ==
    IF "all_data" \in DOMAIN s
    THEN {"process_button"}
            \cup (IF "processed_data" \in DOMAIN s /\ HasAnalysis(s["processed_data"])
                  THEN {"analysis"} ELSE {})
    ELSE {"instructions"}

\* st.session_state[key] = value
SetKey(s, key, value) ==
    [k \in DOMAIN s \cup {key} |-> IF k = key THEN value ELSE s[k]]

NoLoad == [called |-> FALSE]

LoadCall(url, n, fetched) ==
    [called |-> TRUE, url |-> url, num_sheets |-> n, fetched |-> fetched,
     result |-> LoadAllSheets(url, n, fetched)]

\* no market cap has been asked for
CapIdle ==
    /\ yf_answers = <<>>
    /\ stock_market_caps = <<>>

\* the dashboard session has not started
SessIdle ==
    /\ session = <<>>
    /\ shown = {}
    /\ last_load = NoLoad

\* nothing of the dashboard has run
AppIdle ==
    /\ processed_data = <<>>
    /\ stage = "idle"
    /\ analysis = None
    /\ conviction = <<>>
    /\ overlap = NoOverlap

\* the comparator script is not running
CmpIdle ==
    /\ holdings = [s \in Schemes |-> <<>>]
    /\ top_small = <<>>
    /\ top_mid = <<>>
    /\ hashOrder = <<"Buy", "Hold">>
    /\ pc = "idle"
    /\ summary = NoSummary
    /\ run = 1
    /\ firstSummary = NoSummary

----------------------------------------------------------------------------
\* Actions

Init ==
    /\ holdings \in HoldingsInputs
    /\ \E t \in TopInputs : top_small = t[1] /\ top_mid = t[2]
    /\ hashOrder \in HashOrders
    /\ pc = "start"
    /\ summary = NoSummary
    /\ run = 1
    /\ firstSummary = NoSummary
    /\ AppIdle
    /\ CapIdle
    /\ SessIdle

\* a call of generate_summary_table() that returns
GenerateSummaryTable ==
    /\ pc = "start"
    /\ ~Raises(holdings, <<top_small, top_mid>>)
    /\ summary' = [small_cap |-> CapRows(holdings, top_small, hashOrder),
                   mid_cap   |-> CapRows(holdings, top_mid, hashOrder)]
    /\ pc' = "returned"
    /\ UNCHANGED <<holdings, top_small, top_mid, hashOrder, run, firstSummary>>
    /\ UNCHANGED appVars
    /\ UNCHANGED restVars

\* a call of generate_summary_table() that ends in KeyError
GenerateSummaryTableRaises ==
    /\ pc = "start"
    /\ Raises(holdings, <<top_small, top_mid>>)
    /\ pc' = "raised"
    /\ UNCHANGED <<holdings, top_small, top_mid, hashOrder, summary, run, firstSummary>>
    /\ UNCHANGED appVars
    /\ UNCHANGED restVars

\* the script is run again on the same files: a new process, a new hash seed
RunAgain ==
    /\ pc = "returned"
    /\ run = 1
    /\ run' = 2
    /\ firstSummary' = summary
    /\ summary' = NoSummary
    /\ hashOrder' \in HashOrders
    /\ pc' = "start"
    /\ UNCHANGED <<holdings, top_small, top_mid>>
    /\ UNCHANGED appVars
    /\ UNCHANGED restVars

Next == GenerateSummaryTable \/ GenerateSummaryTableRaises \/ RunAgain

Spec == Init /\ [][Next]_vars

InitAnalysis ==
    /\ CmpIdle
    /\ CapIdle
    /\ SessIdle
    /\ processed_data \in ProcessedInputs
    /\ stage = "processed"
    /\ analysis = None
    /\ conviction = <<>>
    /\ overlap = NoOverlap

\* analysis_results = create_comparison_analysis(processed_data), with rows
CreateComparisonAnalysis ==
    /\ stage = "processed"
    /\ ~NoHoldings(processed_data)
    /\ analysis' = CreateAnalysis(processed_data)
    /\ stage' = "analysed"
    /\ UNCHANGED <<processed_data, conviction, overlap>>
    /\ UNCHANGED cmpVars
    /\ UNCHANGED restVars

\* create_comparison_analysis returns None: nothing is analysed
CreateComparisonAnalysisNone ==
    /\ stage = "processed"
    /\ NoHoldings(processed_data)
    /\ analysis' = CreateAnalysis(processed_data)
    /\ stage' = "nothing"
    /\ UNCHANGED <<processed_data, conviction, overlap>>
    /\ UNCHANGED cmpVars
    /\ UNCHANGED restVars

\* compute_conviction on the combined rows
ComputeConviction ==
    /\ stage = "analysed"
    /\ conviction' = ComputeConvictionTable(analysis.combined_df)
    /\ stage' = "scored"
    /\ UNCHANGED <<processed_data, analysis, overlap>>
    /\ UNCHANGED cmpVars
    /\ UNCHANGED restVars

\* compute_scheme_overlap on the combined rows
ComputeSchemeOverlap ==
    /\ stage = "scored"
    /\ overlap' = ComputeOverlap(analysis.combined_df)
    /\ stage' = "done"
    /\ UNCHANGED <<processed_data, analysis, conviction>>
    /\ UNCHANGED cmpVars
    /\ UNCHANGED restVars

NextAnalysis ==
    \/ CreateComparisonAnalysis
    \/ CreateComparisonAnalysisNone
    \/ ComputeConviction
    \/ ComputeSchemeOverlap

SpecAnalysis == InitAnalysis /\ [][NextAnalysis]_vars

InitMarketCap ==
    /\ CmpIdle
    /\ AppIdle
    /\ SessIdle
    /\ yf_answers \in [AllStocks -> CapAnswers]
    /\ stock_market_caps = <<>>

\* one iteration of "for i, stock in enumerate(all_stocks_list)"
FetchMarketCap ==
    /\ yf_answers # <<>>
    /\ \E stock \in AllStocks \ DOMAIN stock_market_caps :
          stock_market_caps' =
              [s \in DOMAIN stock_market_caps \cup {stock} |->
                  IF s = stock
                  THEN [market_cap |-> yf_answers[stock],
                        category |-> CategorizeMarketCap(yf_answers[stock])]
                  ELSE stock_market_caps[s]]
    /\ UNCHANGED <<yf_answers, sessVars>>
    /\ UNCHANGED <<cmpVars, appVars>>

NextMarketCap == FetchMarketCap

SpecMarketCap == InitMarketCap /\ [][NextMarketCap]_vars

\* the first run of the script: an empty session, no button clicked
InitSession ==
    /\ CmpIdle
    /\ AppIdle
    /\ CapIdle
    /\ session = <<>>
    /\ shown = MainPanel(<<>>)
    /\ last_load = NoLoad

\* what load_sheet_data returns for the sheets of a run: nothing is fetched
\* when no spreadsheet id is found
FetchedFor(url, n) ==
    IF NotSheetId(GetSheetInfo(url, n)) THEN {<<>>} ELSE [1..n -> FetchResults]

\* a run with "Load All Sheets" clicked in which some sheet loads
LoadAllSheetsClicked ==
    /\ shown # {}
    /\ \E url \in UrlPool : \E n \in 1..MaxNumSheets : \E fetched \in FetchedFor(url, n) :
          LET all_data == LoadAllSheets(url, n, fetched) IN
          /\ all_data # <<>>
          /\ session' = SetKey(session, "all_data", all_data)
          /\ shown' = {"load_success", "sheet_summary"} \cup MainPanel(session')
          /\ last_load' = LoadCall(url, n, fetched)
    /\ UNCHANGED <<cmpVars, appVars, capVars>>

\* a run with "Load All Sheets" clicked in which nothing loads
LoadAllSheetsFailed ==
    /\ shown # {}
    /\ \E url \in UrlPool : \E n \in 1..MaxNumSheets : \E fetched \in FetchedFor(url, n) :
          LET all_data == LoadAllSheets(url, n, fetched) IN
          /\ all_data = <<>>
          /\ session' = session
          /\ shown' = {"load_error"} \cup MainPanel(session')
          /\ last_load' = LoadCall(url, n, fetched)
    /\ UNCHANGED <<cmpVars, appVars, capVars>>

\* a run with "Process All Data" clicked: the button was drawn by the run before
ProcessAllDataClicked ==
    /\ "process_button" \in shown
    /\ "all_data" \in DOMAIN session
    /\ \E answers \in [StocksOfAllData(session["all_data"]) -> SessionCapAnswers] :
          LET processed == ProcessAllSheetsData(session["all_data"], answers) IN
          /\ session' = IF processed # <<>>
                        THEN SetKey(session, "processed_data", processed)
                        ELSE session
          /\ shown' = (IF processed # <<>> THEN {"process_success"} ELSE {})
                        \cup MainPanel(session')
    /\ last_load' = NoLoad
    /\ UNCHANGED <<cmpVars, appVars, capVars>>

\* a run without a click (a widget changed, the page was refreshed in place)
PlainRerun ==
    /\ shown # {}
    /\ session' = session
    /\ shown' = MainPanel(session)
    /\ last_load' = NoLoad
    /\ UNCHANGED <<cmpVars, appVars, capVars>>

NextSession ==
    \/ LoadAllSheetsClicked
    \/ LoadAllSheetsFailed
    \/ ProcessAllDataClicked
    \/ PlainRerun

SpecSession == InitSession /\ [][NextSession]_vars

----------------------------------------------------------------------------
\* What the claims speak of, stated without the operators of the code

\* equal up to letter case
SameLetters(x, y) ==
    /\ Len(x) = Len(y)
    /\ \A i \in 1..Len(x) :
          \/ x[i] = y[i]
          \/ {x[i], y[i]} \in {{"A", "a"}, {"B", "b"}}

HasName(row) == "stock" \in DOMAIN row

RowMatchesTarget(row, stock) == HasName(row) /\ SameLetters(row.stock, stock)

MatchingIndexes(s, stock) ==
    {j \in 1..Len(holdings[s]) : RowMatchesTarget(holdings[s][j], stock)}

\* the schemes with at least one row matching the stock
HoldingSchemes(stock) == {s \in Schemes : MatchingIndexes(s, stock) # {}}

MinOf(S) == CHOOSE x \in S : \A y \in S : x <= y

FirstMatch(s, stock) == holdings[s][MinOf(MatchingIndexes(s, stock))]

RECURSIVE SetSum(_, _)
SetSum(f, S) ==
    IF S = {} THEN 0
    ELSE LET x == CHOOSE y \in S : TRUE IN f[x] + SetSum(f, S \ {x})

\* every matching row of every scheme, as <<scheme position, row position>>
AllMatches(stock) ==
    {p \in (1..Len(SchemeOrder)) \X (1..MaxRows) :
        p[2] \in MatchingIndexes(SchemeOrder[p[1]], stock)}

MatchRow(p) == holdings[SchemeOrder[p[1]]][p[2]]

Returned == pc = "returned"

ReportedRows ==
    {summary.small_cap[i] : i \in 1..Len(summary.small_cap)}
        \cup {summary.mid_cap[i] : i \in 1..Len(summary.mid_cap)}

Abs(x) == IF x < 0 THEN -x ELSE x

----------------------------------------------------------------------------
\* C1: the reported "# Funds Holding" of every stock is the number of
\* distinct schemes with at least one matching row (a scheme with several
\* matching rows counts once), and never exceeds the number of schemes.
C1_FundCountIsDistinctSchemes ==
    Returned =>
        \A r \in ReportedRows :
            /\ r.FundCount = Cardinality(HoldingSchemes(r.Stock))
            /\ r.FundCount <= Cardinality(Schemes)

\* a scheme lists the reported stock twice and is counted once
C1_Witness ==
    /\ Returned
    /\ \E r \in ReportedRows : \E s \in Schemes :
          /\ Cardinality(MatchingIndexes(s, r.Stock)) >= 2
          /\ r.FundCount = 1

\* C2 as written: "Avg % AUM" is the mean of percent_aum over ALL matching
\* rows (up to the rounding to two decimals), and 0 when no row matches.
C2_AvgOverAllMatchingRows ==
    Returned =>
        \A r \in ReportedRows :
            LET M == AllMatches(r.Stock)
                n == Cardinality(M)
            IN  (\A p \in M : "percent_aum" \in DOMAIN MatchRow(p)) =>
                  LET S == SetSum([p \in M |-> MatchRow(p).percent_aum], M)
                  IN  /\ n = 0 => r.AvgAUM = 0
                      /\ n > 0 => 2 * Abs(r.AvgAUM * n - S) <= 10 * n

\* C2 amended: "Avg % AUM" is the mean, rounded to two decimals, of the
\* percent_aum of the FIRST matching row of each scheme that holds the
\* stock (divisor: the number of such schemes), and 0 when no row matches.
C2_AvgOverFirstMatchPerScheme ==
    Returned =>
        \A r \in ReportedRows :
            LET H == HoldingSchemes(r.Stock)
                n == Cardinality(H)
                S == SetSum([s \in H |-> FirstMatch(s, r.Stock).percent_aum], H)
            IN  /\ n = 0 => r.AvgAUM = 0
                /\ n > 0 => /\ r.AvgAUM % 10 = 0
                            /\ 2 * Abs(r.AvgAUM * n - S) <= 10 * n

\* a scheme has two matching rows of different weight and the average of
\* the stock is reported
C2_Witness ==
    /\ Returned
    /\ \E r \in ReportedRows : \E s \in Schemes :
          /\ \E i, j \in MatchingIndexes(s, r.Stock) :
                /\ i < j
                /\ "percent_aum" \in DOMAIN holdings[s][j]
                /\ holdings[s][i].percent_aum # holdings[s][j].percent_aum
          /\ r.FundCount = 1
          /\ r.AvgAUM > 0

\* C3 as written: the reported Sentiment is the most frequent sentiment
\* among the stock's matches, and among values tied for most frequent the
\* one met first in scheme iteration order.
C3_ModeTiesToFirstEncountered ==
    Returned =>
        \A r \in ReportedRows :
            LET M == AllMatches(r.Stock)
                Occ(v) == Cardinality({p \in M : MatchRow(p).sentiment = v})
                Top == {p \in M : \A q \in M :
                           Occ(MatchRow(q).sentiment) <= Occ(MatchRow(p).sentiment)}
                first == CHOOSE p \in Top : \A q \in Top :
                           \/ p[1] < q[1]
                           \/ p[1] = q[1] /\ p[2] <= q[2]
            IN  (M # {} /\ \A p \in M : "sentiment" \in DOMAIN MatchRow(p)) =>
                  r.Sentiment = MatchRow(first).sentiment

\* C4: every requested stock has exactly one output row, in request order;
\* a stock no row matches is reported with 0 funds, 0 average and
\* "Not Held", and "Not Held" is reported only with a fund count of 0.
C4_NotHeldRowPresent ==
    Returned =>
        /\ Len(summary.small_cap) = Len(top_small)
        /\ Len(summary.mid_cap) = Len(top_mid)
        /\ \A i \in 1..Len(top_small) : summary.small_cap[i].Stock = top_small[i]
        /\ \A i \in 1..Len(top_mid) : summary.mid_cap[i].Stock = top_mid[i]
        /\ \A r \in ReportedRows :
              /\ HoldingSchemes(r.Stock) = {} =>
                    r.FundCount = 0 /\ r.AvgAUM = 0 /\ r.Sentiment = "Not Held"
              /\ r.Sentiment = "Not Held" => r.FundCount = 0

\* one list asks for a held stock and for a stock nobody holds
C4_Witness ==
    /\ Returned
    /\ Len(top_small) = 2
    /\ summary.small_cap[1].FundCount > 0
    /\ summary.small_cap[2].Sentiment = "Not Held"
    /\ HoldingSchemes(top_small[2]) = {}

\* C5 as written: a row whose name differs from the target only by letter
\* case or by surrounding whitespace counts as a match.
C5_MatchIgnoresCaseAndWhitespace ==
    Returned =>
        \A r \in ReportedRows :
            r.FundCount =
                Cardinality({s \in Schemes : \E j \in 1..Len(holdings[s]) :
                    /\ HasName(holdings[s][j])
                    /\ SameLetters(Strip(holdings[s][j].stock), Strip(r.Stock))})

\* C5 amended: names are matched case-insensitively and NOT trimmed: a row
\* differing from the target only by letter case counts as a match, a row
\* differing by leading or trailing whitespace does not.
C5_MatchIgnoresCaseOnly ==
    Returned =>
        \A r \in ReportedRows : \A s \in Schemes :
            /\ (\E j \in 1..Len(holdings[s]) :
                    /\ HasName(holdings[s][j])
                    /\ holdings[s][j].stock # r.Stock
                    /\ SameLetters(holdings[s][j].stock, r.Stock))
                => r.FundCount >= 1 /\ r.Sentiment # "Not Held"
            /\ (\A t \in Schemes : \A j \in 1..Len(holdings[t]) :
                    HasName(holdings[t][j])
                        => ~SameLetters(holdings[t][j].stock, r.Stock))
                => r.FundCount = 0 /\ r.Sentiment = "Not Held"

\* one scheme lists the target in another case, the other with a leading
\* blank: the first is counted, the second is not
C5_Witness ==
    /\ Returned
    /\ \E r \in ReportedRows : \E s, u \in Schemes :
          /\ r.Stock = A
          /\ holdings[s] = <<[stock |-> a, percent_aum |-> 27, sentiment |-> "Buy"]>>
          /\ Len(holdings[u]) = 1
          /\ holdings[u][1].stock = SpA
          /\ r.FundCount = 1

\* C6 as written: a row lacking percent_aum or sentiment never makes the
\* call raise: when every row has its stock name, the call returns.
C6_NeverRaisesOnMissingOptional ==
    (\A s \in Schemes : \A j \in 1..Len(holdings[s]) : HasName(holdings[s][j]))
        => pc # "raised"

\* the holdings without the rows whose stock name is missing or empty
WithoutMalformed(h) ==
    [s \in Schemes |->
        SelectSeq(h[s], LAMBDA row : HasName(row) /\ row.stock # <<>>)]

\* C7 as written: a row with a missing or empty stock name is skipped: the
\* call does not abort because of it, and the result is the one the
\* remaining rows alone give.
C7_MalformedRowSkipped ==
    LET clean == WithoutMalformed(holdings) IN
    ~Raises(clean, <<top_small, top_mid>>) =>
        /\ pc # "raised"
        /\ Returned =>
              summary = [small_cap |-> CapRows(clean, top_small, hashOrder),
                         mid_cap   |-> CapRows(clean, top_mid, hashOrder)]

\* C8 as written: a second run on identical holdings and target lists
\* returns the identical output, also when sentiment counts are tied.
C8_SecondRunIdentical ==
    (run = 2 /\ Returned) => summary = firstSummary

----------------------------------------------------------------------------
\* What C9 and C10 speak of, stated on processed_data itself

\* the schemes whose sheet lists the stock
SheetsHolding(stock) ==
    {i \in 1..Len(processed_data) :
        /\ processed_data[i].has_stock_column
        /\ \E j \in 1..Len(processed_data[i].stocks) :
              processed_data[i].stocks[j] = stock}

\* the schemes present in the rows
SheetsWithRows ==
    {i \in 1..Len(processed_data) :
        processed_data[i].has_stock_column /\ processed_data[i].stocks # <<>>}

ConvictionRows == {conviction[i] : i \in 1..Len(conviction)}

Scored == stage \in {"scored", "done"}

SheetStockSet(i) ==
    {Lower(processed_data[i].stocks[j]) : j \in 1..Len(processed_data[i].stocks)}

SheetIndex(name) == CHOOSE i \in 1..Len(processed_data) : SheetName(i) = name

\* C10: the overlap is symmetric and bounded: matrix(a,b) = matrix(b,a) =
\* |stocks_a /\ stocks_b| for every two schemes, every listed pair has that
\* common count and a jaccard in [0,1] equal to the jaccard of the swapped
\* pair, and the diagonal is the scheme's count of distinct held stocks.
C10_OverlapSymmetricBounded ==
    stage = "done" =>
        LET names == {SheetName(i) : i \in SheetsWithRows} IN
        /\ DOMAIN overlap.matrix = names
        /\ \A x, y \in names :
              LET sx == SheetStockSet(SheetIndex(x))
                  sy == SheetStockSet(SheetIndex(y))
              IN  /\ overlap.matrix[x][y] = overlap.matrix[y][x]
                  /\ overlap.matrix[x][y] = Cardinality(sx \cap sy)
                  /\ overlap.matrix[x][x] = Cardinality(sx)
                  /\ Jaccard(sx, sy) = Jaccard(sy, sx)
        /\ \A k \in 1..Len(overlap.pairs) :
              LET p == overlap.pairs[k]
                  sx == SheetStockSet(SheetIndex(p.scheme_a))
                  sy == SheetStockSet(SheetIndex(p.scheme_b))
              IN  /\ p.scheme_a # p.scheme_b
                  /\ p.common_stock_count = Cardinality(sx \cap sy)
                  /\ p.common_stock_count = overlap.matrix[p.scheme_b][p.scheme_a]
                  /\ p.jaccard.num >= 0 /\ p.jaccard.num <= p.jaccard.den
                  /\ p.jaccard.den > 0
                  /\ p.jaccard.num * Cardinality(sx \cup sy) = p.jaccard.den * Cardinality(sx \cap sy)
        /\ \A x, y \in names :
              x # y => Cardinality({k \in 1..Len(overlap.pairs) :
                          {overlap.pairs[k].scheme_a, overlap.pairs[k].scheme_b} = {x, y}}) = 1

\* two schemes share one of two stocks (in different letter case) and a
\* third shares none with the first: common counts 1 and 0, jaccard 1/2
C10_Witness ==
    /\ stage = "done"
    /\ \E k \in 1..Len(overlap.pairs) :
          /\ overlap.pairs[k].jaccard = [num |-> 1, den |-> 2]
          /\ overlap.matrix[overlap.pairs[k].scheme_b][overlap.pairs[k].scheme_a] = 1
          /\ overlap.matrix[overlap.pairs[k].scheme_b][overlap.pairs[k].scheme_b] = 2
    /\ \E k \in 1..Len(overlap.pairs) : overlap.pairs[k].common_stock_count = 0

----------------------------------------------------------------------------
\* C11 as written: for every stock the Number_of_Schemes of the
\* holdings_comparison table equals the Number_of_Schemes of
\* stock_scheme_count (the distinct schemes holding it), also when a sheet
\* lists the stock in several rows, and equals the number of names in Schemes.
C11_ComparisonCountsDistinctSchemes ==
    stage \in {"analysed", "scored", "done"} =>
        /\ Len(analysis.holdings_comparison) = Len(analysis.stock_scheme_count)
        /\ \A k \in 1..Len(analysis.holdings_comparison) :
              LET h == analysis.holdings_comparison[k]
                  c == analysis.stock_scheme_count[k]
              IN  /\ h.Stock = c.Stock
                  /\ h.Number_of_Schemes = c.Number_of_Schemes
                  /\ h.Number_of_Schemes = Cardinality(SheetsHolding(h.Stock))
                  /\ h.Number_of_Schemes = Len(h.Schemes)

----------------------------------------------------------------------------
\* the classes in ascending order
CapClass(category) ==
    CASE category = "Small Cap" -> 1
      [] category = "Mid Cap" -> 2
      [] category = "Large Cap" -> 3
      [] OTHER -> 0

\* C12: categorize_market_cap is a total classification: "Unknown" exactly
\* for None; otherwise, with crores = value*83/10^7, "Large Cap" iff
\* crores >= 20000, "Mid Cap" iff 5000 <= crores < 20000, "Small Cap" iff
\* crores < 5000; and a larger market cap never gets a smaller class.
\* (value in millions: crores = 8.3 * value, compared as 83 * value.)
C12_MarketCapClassification ==
    /\ \A s \in DOMAIN stock_market_caps :
          LET e == stock_market_caps[s] IN
          /\ e.category \in {"Unknown", "Large Cap", "Mid Cap", "Small Cap"}
          /\ e.category = "Unknown" <=> e.market_cap = <<>>
          /\ e.market_cap # <<>> =>
                LET v == e.market_cap[1] IN
                /\ e.category = "Large Cap" <=> 83 * v >= 200000
                /\ e.category = "Mid Cap" <=> (83 * v >= 50000 /\ 83 * v < 200000)
                /\ e.category = "Small Cap" <=> 83 * v < 50000
    /\ \A s, u \in DOMAIN stock_market_caps :
          LET e == stock_market_caps[s]
              f == stock_market_caps[u]
          IN  (e.market_cap # <<>> /\ f.market_cap # <<>>
                  /\ e.market_cap[1] <= f.market_cap[1])
                => CapClass(e.category) <= CapClass(f.category)

\* one stock just above the mid cap limit, the other just above the large
\* cap limit, both categorized
C12_Witness ==
    /\ DOMAIN stock_market_caps = AllStocks
    /\ \E s, u \in AllStocks :
          /\ stock_market_caps[s].market_cap = <<603>>
          /\ stock_market_caps[s].category = "Mid Cap"
          /\ stock_market_caps[u].market_cap = <<2410>>
          /\ stock_market_caps[u].category = "Large Cap"

----------------------------------------------------------------------------
\* What C13..C15 speak of

InSession(key) == key \in DOMAIN session

\* in every session state the workflow is ordered
C13_Ordered ==
    /\ InSession("processed_data") => InSession("all_data")
    /\ "analysis" \in shown => InSession("processed_data")
    /\ ~InSession("all_data") =>
          /\ "instructions" \in shown
          /\ shown \cap {"process_button", "process_success", "analysis",
                         "sheet_summary"} = {}

\* a run that stores processed_data finds all_data in the session already
C13_StoredAfterLoad ==
    ("process_success" \in shown'
        \/ (InSession("processed_data")' /\ ~InSession("processed_data")))
        => /\ InSession("all_data")
           /\ session'["all_data"] = session["all_data"]

\* C13: across any sequence of runs of main (Load All Sheets, Process All
\* Data, plain reruns) processed_data is stored only in a run that finds
\* all_data in the session, so processed_data present implies all_data
\* present; the analysis is displayed only when processed_data is present;
\* and with all_data absent the main panel shows the instructions only.
C13_WorkflowOrdered ==
    C13_Ordered /\ [][C13_Ordered' /\ C13_StoredAfterLoad]_vars

\* a run of Process All Data that stores its result and displays the analysis
C13_Witness ==
    /\ "process_success" \in shown
    /\ "analysis" \in shown
    /\ InSession("processed_data")

\* processed_data without the columns process_all_sheets_data added
Unprocessed(pd) ==
    [name \in DOMAIN pd |->
        [has_stock_column |-> pd[name].has_stock_column, stocks |-> pd[name].stocks]]

\* C14 as written: whenever the comparative analysis is displayed, the
\* processed_data it is computed from was derived from the all_data now in
\* the session; a successful Load All Sheets never leaves an analysis of a
\* previously loaded dataset on display.
C14_AnalysisOfCurrentData ==
    "analysis" \in shown =>
        Unprocessed(session["processed_data"]) = session["all_data"]

\* a spreadsheet id can be extracted: '/d/' followed by a non-empty id
IdExtracted(url) ==
    \E k \in 1..(Len(url) - 3) :
        /\ url[k] = "/" /\ url[k + 1] = "d" /\ url[k + 2] = "/"
        /\ url[k + 3] # "/"

\* the last load_all_sheets call returned exactly the sheets that loaded, and
\* main stored the result only if it is not empty
C15_LoadResult ==
    /\ InSession("all_data") => DOMAIN session["all_data"] # {}
    /\ last_load.called =>
          LET r == last_load.result
              n == last_load.num_sheets
              f == last_load.fetched
          IN  /\ DOMAIN r \subseteq {SheetName(i) : i \in 1..n}
              /\ \A i \in 1..n :
                    SheetName(i) \in DOMAIN r <=>
                        (IdExtracted(last_load.url) /\ f[i] # <<>>)
              /\ \A i \in 1..n : SheetName(i) \in DOMAIN r => r[SheetName(i)] = f[i][1]
              /\ ~IdExtracted(last_load.url) => DOMAIN r = {}
              /\ DOMAIN r = {} <=> "load_error" \in shown
              /\ DOMAIN r # {} => InSession("all_data") /\ session["all_data"] = r

\* a run that reports the load error leaves the session as it was
C15_FailedLoadKeepsSession == "load_error" \in shown' => session' = session

\* C15: load_all_sheets returns only the sheets whose load succeeded (keys
\* among Sheet1..SheetN) and an empty mapping when no spreadsheet id can be
\* extracted; on an empty result main reports an error and leaves all_data
\* and processed_data unchanged, so session all_data is never empty.
C15_FailedLoadChangesNothing ==
    C15_LoadResult /\ [][C15_LoadResult' /\ C15_FailedLoadKeepsSession]_vars

\* a load from a URL without '/d/' fails after data was loaded and
\* processed: the error is reported and both stay in the session
C15_Witness ==
    /\ last_load.called
    /\ ~HasMarker(last_load.url)
    /\ "load_error" \in shown
    /\ InSession("all_data")
    /\ InSession("processed_data")

====
